---- MODULE Spec2Model ----
(***************************************************************************)
(* State-machine model of the PDF table-extraction service.                *)
(*                                                                         *)
(*   src/main.py   home (POST /) and get_csv (GET /<uid>)                  *)
(*   src/utils.py  is_pdf, UUID, check_rows, extract_tables                *)
(*                                                                         *)
(* Text.  A Python string is a sequence of lexical tokens.  A comma, a     *)
(* blank and a line break are tokens of their own; every other token is a  *)
(* run of characters holding none of the three at its ends.  split(","),   *)
(* strip() and readlines() are computed on the tokens, so that what        *)
(* get_csv parses out of a status line is not assumed to be what           *)
(* extract_tables meant to write into it.                                  *)
(*                                                                         *)
(* Files.  A file that exists has a content; a file that does not exist    *)
(* is outside the domain of the function that holds its directory.         *)
(* open(path, "w") creates or truncates the file at once; the text handed  *)
(* to f.write() reaches the file when the with-block closes it.            *)
(***************************************************************************)
EXTENDS Integers, Sequences, FiniteSets, TLC

VARIABLES
    now,        \* the system clock, in microseconds (datetime.datetime.now())
    uploads,    \* uploads/pdf: sanitized file name -> stored document
    dirs,       \* uploads/csv: the job directories that exist
    status,     \* uploads/csv/<uid>/response.txt: uid -> content
    csv,        \* uploads/csv/<uid>/<name>.csv: <<uid, name>> -> content
    threads,    \* the extract_tables threads started by home, in start order
    faults,     \* I/O errors the filesystem has raised so far
    h,          \* the home handler: its position and locals
    hresp,      \* the last response home sent
    returned,   \* the job identifiers home has sent to a client
    g,          \* the get_csv handler: its position and locals
    resp        \* the last response get_csv sent

vars == <<now, uploads, dirs, status, csv, threads, faults, h, hresp, returned, g, resp>>

-----------------------------------------------------------------------------
(* Bounds *)

\* Extractions dispatched in one run of the model (also the largest batch).
MaxJobs == 2

\* I/O errors the filesystem raises in one run of the model.
MaxFaults == 1

-----------------------------------------------------------------------------
(* Text *)

COMMA == ","
SP == " "
NL == "\n"

IsSpace(tok) == tok \in {SP, NL}

RECURSIVE lstrip(_)
lstrip(s) == IF s # <<>> /\ IsSpace(Head(s)) THEN lstrip(Tail(s)) ELSE s

RECURSIVE rstrip(_)
rstrip(s) ==
    IF s # <<>> /\ IsSpace(s[Len(s)]) THEN rstrip(SubSeq(s, 1, Len(s) - 1)) ELSE s

\* str.strip()
strip(s) == rstrip(lstrip(s))

\* The position of the first token `tok` of s, or 0.
RECURSIVE find(_, _, _)
find(s, tok, k) ==
    IF k > Len(s) THEN 0 ELSE IF s[k] = tok THEN k ELSE find(s, tok, k + 1)

\* str.split(sep): the pieces between the separators, empty pieces kept.
RECURSIVE split(_, _)
split(s, sep) ==
    LET k == find(s, sep, 1) IN
    IF k = 0 THEN <<s>>
    ELSE <<SubSeq(s, 1, k - 1)>> \o split(SubSeq(s, k + 1, Len(s)), sep)

\* file.readlines(): the lines of a content, each with its line break.
RECURSIVE readlines(_)
readlines(content) ==
    LET k == find(content, NL, 1) IN
    IF content = <<>> THEN <<>>
    ELSE IF k = 0 THEN <<content>>
    ELSE <<SubSeq(content, 1, k)>> \o readlines(SubSeq(content, k + 1, Len(content)))

\* The decimal literals that occur in the model and the integers int() makes
\* of them; int() strips blanks and raises ValueError on anything else.
Literals == {"200", "400", "500"}
IsIntLiteral(s) == Len(strip(s)) = 1 /\ strip(s)[1] \in Literals
int(s) ==
    LET tok == strip(s)[1] IN
    IF tok = "200" THEN 200 ELSE IF tok = "400" THEN 400 ELSE 500

-----------------------------------------------------------------------------
(* Documents: what pdfplumber makes of an uploaded file *)

\* A cell pdfplumber could not read.
None == "None"

\* Rows of 3 and 2 cells that hold 2 cells each once None is discarded.
TGood == << <<"a", None, "b">>, <<"c", "d">> >>
\* Rows of 2 cells each that hold 1 and 2 cells once None is discarded.
TBad == << <<"a", None>>, <<"c", "d">> >>

NoError == <<>>
Page(tables) == [tables |-> tables, raises |-> NoError]
\* A page whose extract_tables() raises inside the library.
ParseError == <<"not enough values to unpack (expected 2", COMMA, SP, "got 1)">>
BrokenPage == [tables |-> <<>>, raises |-> ParseError]

Pdf(pages) == [syntax_ok |-> TRUE, pages |-> pages]
DocEmpty == Pdf(<<>>)
DocNoTables == Pdf(<<Page(<<>>), Page(<<TGood>>)>>)
DocLateEmpty == Pdf(<<Page(<<TGood>>), Page(<<>>)>>)
DocOne == Pdf(<<Page(<<TGood>>)>>)
DocTwo == Pdf(<<Page(<<TGood, TGood>>)>>)
DocBad == Pdf(<<Page(<<TBad>>)>>)
DocBroken == Pdf(<<BrokenPage>>)
\* A file with a PDF header that pdfplumber.open() rejects.
DocCorrupt == [syntax_ok |-> FALSE, pages |-> <<>>]

Docs ==
    {DocEmpty, DocNoTables, DocLateEmpty, DocOne, DocTwo, DocBad, DocBroken, DocCorrupt}

PdfMime == "application/pdf"
FileNames == {"a.pdf", "b.pdf"}

\* The files a client can put into a request.
PdfFiles == [filename : FileNames, mime : {PdfMime}, body : Docs]
TextFile == [filename |-> "notes.txt", mime |-> "text/plain", body |-> DocCorrupt]
Files == PdfFiles \cup {TextFile}
\* The entry a browser sends for a file field left empty.
NoFile == [filename |-> "", mime |-> "application/octet-stream", body |-> DocCorrupt]

-----------------------------------------------------------------------------
(* src/utils.py *)

is_pdf(file) == file.mime = PdfMime

\* werkzeug's secure_filename leaves the names of FileNames as they are.
secure_filename(filename) == filename

\* strftime("%Y%m%d_%H%M%S%f") of a clock value: the date and time of day to
\* the second, then the microsecond in six digits.
MicrosPerSecond == 1000000

Pad6(n) ==
    (IF n < 10 THEN "00000"
     ELSE IF n < 100 THEN "0000"
     ELSE IF n < 1000 THEN "000"
     ELSE IF n < 10000 THEN "00"
     ELSE IF n < 100000 THEN "0" ELSE "") \o ToString(n)

UUID(t) == "S" \o ToString(t \div MicrosPerSecond) \o Pad6(t % MicrosPerSecond)

filtered_row(row) == SelectSeq(row, LAMBDA item : item # None)

\* expected is <<>> while expected_row_length is None, <<n>> afterwards.
RECURSIVE check_rows_from(_, _, _)
check_rows_from(table, k, expected) ==
    IF k > Len(table) THEN TRUE
    ELSE LET n == Len(filtered_row(table[k])) IN
         IF expected = <<>> THEN check_rows_from(table, k + 1, <<n>>)
         ELSE IF n # expected[1] THEN FALSE
         ELSE check_rows_from(table, k + 1, expected)

check_rows(table) == check_rows_from(table, 1, <<>>)

-----------------------------------------------------------------------------
(* The filesystem *)

\* f with key k set to v, k joining the domain when it is new.
Put(f, k, v) == [x \in DOMAIN f \cup {k} |-> IF x = k THEN v ELSE f[x]]

EmptyFile == <<>>

CSV_FOLDER == "uploads/csv"
StatusPath(target) == CSV_FOLDER \o "/" \o target \o "/response.txt"

\* page_{i}_table_no_{table_index}.csv, as <<stem, extension>>.
CsvName(i, table_index) ==
    <<"page_" \o ToString(i) \o "_table_no_" \o ToString(table_index), ".csv">>
CsvPath(target, name) == CSV_FOLDER \o "/" \o target \o "/" \o name[1] \o name[2]

\* What str(e) is for the errors the model raises.
DiskError == <<"[Errno 28] No space left on device">>
NoSuchFile(path) == <<"[Errno 2] No such file or directory:", SP, path>>
NameError == <<"name 'filtered_table' is not defined">>

CanFault == faults < MaxFaults

-----------------------------------------------------------------------------
(* src/utils.py: extract_tables, one thread per dispatched file *)

\* The places where extract_tables writes response.txt.
Sites ==
    {"pending", "notables", "structure", "csverr", "syntax", "general", "success",
     "toplevel"}
Terminal == Sites \ {"pending"}

\* The line each place writes.
Line(site, th) ==
    CASE site = "pending" -> <<"200", COMMA, SP, "Extracting data in progress">>
      [] site = "notables" -> <<"200", COMMA, SP, "No tables found">>
      [] site = "structure" -> <<"400", COMMA, SP, "Tables are not properly structured">>
      [] site = "csverr" ->
            <<"500", COMMA, SP, "Error writing CSV file", SP,
              CsvPath(th.target, CsvName(th.i, th.t))>>
      [] site = "syntax" -> <<"500", COMMA, SP, "PDF Syntax Error">>
      [] site = "general" -> <<"500", COMMA, SP, "Error processing PDF file:", SP>> \o th.e
      [] site = "success" -> <<"success">>
      [] site = "toplevel" -> <<"500", COMMA, SP, "Error:", SP>> \o th.e

\* The except clause that catches an error raised while a place writes, or
\* "none" when the error leaves extract_tables.
OnFail(site) ==
    CASE site \in {"notables", "structure", "csverr"} -> "general"
      [] site \in {"pending", "syntax", "general", "success"} -> "toplevel"
      [] site = "toplevel" -> "none"

\* After, with the `return` of the two except clauses of the inner try left
\* out: control goes on to the write of `success`.
After_NoReturn(site) ==
    IF site = "pending" THEN [pc |-> "open_pdf", site |-> site]
    ELSE IF site \in {"syntax", "general"} THEN [pc |-> "open_status", site |-> "success"]
    ELSE [pc |-> "done", site |-> site]

\* Where extract_tables goes on once a place has written: to the PDF after
\* the pending status, out of the function (return, or the end of the body)
\* after every other.
After(site) ==
    IF site = "pending" THEN [pc |-> "open_pdf", site |-> site]
    ELSE [pc |-> "done", site |-> site]

NewThread(source, target) ==
    [pc |-> "makedirs", source |-> source, target |-> target, pages |-> <<>>,
     i |-> 0, t |-> 0, site |-> "pending", e |-> NoError, log |-> <<>>]

\* Control enters the except clause that writes at `site`.
Handle(th, site, e) == [th EXCEPT !.pc = "open_status", !.site = site, !.e = e]

\* An error raised while th writes response.txt at th.site.
Raise(th, e) ==
    IF OnFail(th.site) = "none" THEN [th EXCEPT !.pc = "crashed", !.e = e]
    ELSE Handle(th, OnFail(th.site), e)

Running(th) == th.pc \notin {"done", "crashed"}

\* os.makedirs(target, exist_ok=True)
extract_tables_makedirs(j) ==
    LET th == threads[j] IN
    /\ th.pc = "makedirs"
    /\ \/ /\ dirs' = dirs \cup {th.target}
          /\ threads' = [threads EXCEPT ![j].pc = "open_status", ![j].site = "pending"]
          /\ UNCHANGED faults
       \/ /\ CanFault
          /\ faults' = faults + 1
          /\ threads' = [threads EXCEPT ![j] = Handle(th, "toplevel", DiskError)]
          /\ UNCHANGED dirs
    /\ UNCHANGED <<now, uploads, status, csv, h, hresp, returned, g, resp>>

\* open(f"{target}/response.txt", "w")
extract_tables_open_status(j) ==
    LET th == threads[j] IN
    /\ th.pc = "open_status"
    /\ \/ /\ th.target \in dirs
          /\ status' = Put(status, th.target, EmptyFile)
          /\ threads' = [threads EXCEPT ![j].pc = "write_status"]
          /\ UNCHANGED faults
       \/ /\ th.target \notin dirs
          /\ threads' = [threads EXCEPT ![j] = Raise(th, NoSuchFile(StatusPath(th.target)))]
          /\ UNCHANGED <<status, faults>>
       \/ /\ th.target \in dirs
          /\ CanFault
          /\ faults' = faults + 1
          /\ threads' = [threads EXCEPT ![j] = Raise(th, DiskError)]
          /\ UNCHANGED status
    /\ UNCHANGED <<now, uploads, dirs, csv, h, hresp, returned, g, resp>>

\* f.write(line), which reaches the file as the with-block closes it.
extract_tables_write_status(j) ==
    LET th == threads[j] IN
    /\ th.pc = "write_status"
    /\ \/ /\ status' = Put(status, th.target, Line(th.site, th))
          /\ threads' = [threads EXCEPT ![j].pc = After(th.site).pc,
                                        ![j].site = After(th.site).site,
                                        ![j].log = Append(th.log, th.site)]
          /\ UNCHANGED faults
       \/ /\ CanFault
          /\ faults' = faults + 1
          /\ threads' = [threads EXCEPT ![j] = Raise(th, DiskError)]
          /\ UNCHANGED status
    /\ UNCHANGED <<now, uploads, dirs, csv, h, hresp, returned, g, resp>>

\* One turn of the page loop up to the first table of the page: the end of
\* the document, page.extract_tables(), the empty page, check_rows(table).
\* A later table of a page and a later page are never reached: the write of
\* the first table that passes check_rows raises (extract_tables_open_csv).
\* The turn reads and writes no file: it is taken with the step before it.
extract_tables_page(th) ==
    LET page == th.pages[th.i] IN
    IF th.i > Len(th.pages) THEN [th EXCEPT !.pc = "open_status", !.site = "success"]
    ELSE IF page.raises # NoError THEN Handle(th, "general", page.raises)
    ELSE IF Len(page.tables) = 0 THEN [th EXCEPT !.pc = "open_status", !.site = "notables"]
    ELSE IF ~check_rows(page.tables[1])
        THEN [th EXCEPT !.pc = "open_status", !.site = "structure", !.t = 1]
    ELSE [th EXCEPT !.pc = "open_csv", !.t = 1]

\* pdfplumber.open(source), and the loop over pdf.pages as far as the next
\* file it touches.
extract_tables_open_pdf(j) ==
    LET th == threads[j]
        doc == uploads[th.source] IN
    /\ th.pc = "open_pdf"
    /\ \/ /\ doc.syntax_ok
          /\ threads' = [threads EXCEPT
                            ![j] = extract_tables_page([th EXCEPT !.pages = doc.pages,
                                                                  !.i = 1])]
       \/ /\ ~doc.syntax_ok
          /\ threads' = [threads EXCEPT ![j] = Handle(th, "syntax", NoError)]
    /\ UNCHANGED <<now, uploads, dirs, status, csv, faults, h, hresp, returned, g, resp>>

\* open(csv_file, "w", newline="") creates the file; evaluating
\* writer.writerows(filtered_table) then raises NameError, no name
\* filtered_table being bound in extract_tables or in the module, and the
\* with-block closes the file empty.  NameError is no IOError: the clause
\* `except Exception` of the inner try catches it.
extract_tables_open_csv(j) ==
    LET th == threads[j] IN
    /\ th.pc = "open_csv"
    /\ \/ /\ csv' = Put(csv, <<th.target, CsvName(th.i, th.t)>>, EmptyFile)
          /\ threads' = [threads EXCEPT ![j] = Handle(th, "general", NameError)]
          /\ UNCHANGED faults
       \/ /\ CanFault
          /\ faults' = faults + 1
          /\ threads' = [threads EXCEPT ![j] = Handle(th, "csverr", DiskError)]
          /\ UNCHANGED csv
    /\ UNCHANGED <<now, uploads, dirs, status, h, hresp, returned, g, resp>>

-----------------------------------------------------------------------------
(* src/main.py: home *)

\* The file names being interchangeable, the first file of a batch is taken
\* to be the one named "a.pdf" whenever it is a PDF.
Batches(n) ==
    {fs \in UNION {[1..m -> Files] : m \in 1..n} :
        is_pdf(fs[1]) => fs[1].filename = "a.pdf"}

\* request.files of the requests a client can send.
Requests(n) ==
    {[has_files |-> FALSE, files |-> <<>>], [has_files |-> TRUE, files |-> <<NoFile>>]}
        \cup {[has_files |-> TRUE, files |-> fs] : fs \in Batches(n)}

NoResponse == [code |-> 0, error |-> "", data |-> <<>>]

\* The checks on request.files, and the start of the loop over the files.
home_request ==
    /\ h.pc = "idle"
    /\ Len(threads) < MaxJobs
    /\ \E req \in Requests(MaxJobs - Len(threads)) :
        \/ /\ ~req.has_files
           /\ hresp' = [code |-> 400, error |-> "No files part in the request", data |-> <<>>]
           /\ h' = [h EXCEPT !.response = <<>>]
        \/ /\ req.has_files
           /\ req.files[1].filename = ""
           /\ hresp' = [code |-> 400, error |-> "No files selected for upload", data |-> <<>>]
           /\ h' = [h EXCEPT !.response = <<>>]
        \/ /\ req.has_files
           /\ req.files[1].filename # ""
           /\ hresp' = NoResponse
           /\ h' = [pc |-> "loop", files |-> req.files, k |-> 1, response |-> <<>>,
                    filename |-> ""]
    /\ UNCHANGED <<now, uploads, dirs, status, csv, threads, faults, returned, g, resp>>

\* is_pdf(file), then secure_filename and file.save.
home_save ==
    LET file == h.files[h.k] IN
    /\ h.pc = "loop"
    /\ h.k <= Len(h.files)
    /\ \/ /\ ~is_pdf(file)
          /\ hresp' = [code |-> 400, error |-> "All files should be PDFs", data |-> <<>>]
          /\ h' = [h EXCEPT !.pc = "idle", !.files = <<>>, !.k = 1]
          /\ UNCHANGED uploads
       \/ /\ is_pdf(file)
          /\ uploads' = Put(uploads, secure_filename(file.filename), file.body)
          /\ h' = [h EXCEPT !.pc = "dispatch", !.filename = secure_filename(file.filename)]
          /\ UNCHANGED hresp
    /\ UNCHANGED <<now, dirs, status, csv, threads, faults, returned, g, resp>>

\* uid = UUID(), response.append(...), Thread(target=extract_tables, ...).start().
\* The clock moves on by `d` microseconds before it is read again.
home_dispatch ==
    /\ h.pc = "dispatch"
    /\ \E d \in {0, 1} :
        /\ now' = now + d
        /\ LET uid == UUID(now) IN
           /\ h' = [h EXCEPT !.pc = "loop", !.k = h.k + 1,
                             !.response = Append(h.response,
                                                 [uid |-> uid, file_name |-> h.filename])]
           /\ threads' = Append(threads, NewThread(h.filename, uid))
    /\ UNCHANGED <<uploads, dirs, status, csv, faults, hresp, returned, g, resp>>

\* The threads that the request being handled (or, home being idle, the
\* last request) has started: the last Len(h.response) ones.
Dispatched == (Len(threads) - Len(h.response) + 1)..Len(threads)

\* home_return, with home joining the threads it has started before it
\* answers.
home_return_Joined ==
    /\ h.pc = "loop"
    /\ h.k > Len(h.files)
    /\ \A j \in Dispatched : ~Running(threads[j])
    /\ hresp' = [code |-> 200, error |-> "", data |-> h.response]
    /\ returned' = returned \cup {h.response[k].uid : k \in 1..Len(h.response)}
    /\ h' = [h EXCEPT !.pc = "idle", !.files = <<>>, !.k = 1]
    /\ UNCHANGED <<now, uploads, dirs, status, csv, threads, faults, g, resp>>

\* return jsonify({"data": response}), 200
home_return ==
    /\ h.pc = "loop"
    /\ h.k > Len(h.files)
    /\ hresp' = [code |-> 200, error |-> "", data |-> h.response]
    /\ returned' = returned \cup {h.response[k].uid : k \in 1..Len(h.response)}
    /\ h' = [h EXCEPT !.pc = "idle", !.files = <<>>, !.k = 1]
    /\ UNCHANGED <<now, uploads, dirs, status, csv, threads, faults, g, resp>>

home == home_request \/ home_save \/ home_dispatch \/ home_return

-----------------------------------------------------------------------------
(* src/main.py: get_csv *)

Empty == [x \in {} |-> EmptyFile]

NoReply ==
    [kind |-> "none", code |-> 0, error |-> <<>>, download_name |-> "",
     mimetype |-> "", entries |-> Empty]

\* return jsonify({"error": error}), code
Json(code, error) == [NoReply EXCEPT !.kind = "json", !.code = code, !.error = error]

\* send_file(..., as_attachment=True, download_name=..., mimetype=...)
SendFile(download_name, mimetype, entries) ==
    [NoReply EXCEPT !.kind = "file", !.code = 200, !.download_name = download_name,
                    !.mimetype = mimetype, !.entries = entries]

\* An exception that no except clause of get_csv catches: the handler ends
\* with it and the server answers 500 by itself.
Uncaught(exception) ==
    [NoReply EXCEPT !.kind = "uncaught", !.code = 500, !.error = <<exception>>]

Success == [NoReply EXCEPT !.kind = "success"]

\* The body of `with open(f"{csv_dir}/response.txt", "r") as file:`, from
\* the content of the file to the response, or Success when control leaves
\* the block for the listing of the CSV files.
get_csv_parse(content) ==
    LET lines == readlines(content)
        first_line == strip(lines[1])
        msg == split(first_line, COMMA) IN
    IF lines = <<>> THEN Uncaught("IndexError")
    ELSE IF first_line = <<"success">> THEN Success
    ELSE IF Len(msg) < 2
        THEN Json(400, <<"Error parsing response file:", SP,
                         "Error message format is invalid in the response file">>)
    ELSE IF ~IsIntLiteral(msg[1])
        THEN Json(400, <<"Error parsing response file:", SP,
                         "invalid literal for int() with base 10">>)
    ELSE Json(int(msg[1]), msg[2])

\* The identifiers a client asks for: those the clock can have produced.
PollUids == {UUID(t) : t \in 0..(MaxJobs - 1)}

\* GET /<uid> arrives.
get_csv_request ==
    /\ g.pc = "idle"
    /\ \E uid \in PollUids :
        g' = [pc |-> "status", uid |-> uid, csv_files |-> {}]
    /\ resp' = NoReply
    /\ UNCHANGED <<now, uploads, dirs, status, csv, threads, faults, h, hresp, returned>>

\* get_csv_status, with a missing response.txt taken for a job that has not
\* started yet: the answer is that of the pending status.
get_csv_status_MissingIsPending ==
    /\ g.pc = "status"
    /\ \/ /\ g.uid \notin DOMAIN status
          /\ resp' = Json(200, <<SP, "Extracting data in progress">>)
          /\ g' = [g EXCEPT !.pc = "idle"]
       \/ /\ g.uid \in DOMAIN status
          /\ get_csv_parse(status[g.uid]) # Success
          /\ resp' = get_csv_parse(status[g.uid])
          /\ g' = [g EXCEPT !.pc = "idle"]
       \/ /\ g.uid \in DOMAIN status
          /\ get_csv_parse(status[g.uid]) = Success
          /\ g' = [g EXCEPT !.pc = "listdir"]
          /\ UNCHANGED resp
    /\ UNCHANGED <<now, uploads, dirs, status, csv, threads, faults, h, hresp, returned>>

\* The read of response.txt and what follows from it.
get_csv_status ==
    /\ g.pc = "status"
    /\ \/ /\ g.uid \notin DOMAIN status
          /\ resp' = Json(404, <<"Status file not found">>)
          /\ g' = [g EXCEPT !.pc = "idle"]
       \/ /\ g.uid \in DOMAIN status
          /\ get_csv_parse(status[g.uid]) # Success
          /\ resp' = get_csv_parse(status[g.uid])
          /\ g' = [g EXCEPT !.pc = "idle"]
       \/ /\ g.uid \in DOMAIN status
          /\ get_csv_parse(status[g.uid]) = Success
          /\ g' = [g EXCEPT !.pc = "listdir"]
          /\ UNCHANGED resp
    /\ UNCHANGED <<now, uploads, dirs, status, csv, threads, faults, h, hresp, returned>>

ResponseTxt == <<"response", ".txt">>

\* os.listdir(csv_dir)
listdir(uid) ==
    {p[2] : p \in {q \in DOMAIN csv : q[1] = uid}}
        \cup (IF uid \in DOMAIN status THEN {ResponseTxt} ELSE {})

\* csv_files: the entries of the job directory that end in ".csv".
get_csv_listdir ==
    /\ g.pc = "listdir"
    /\ g' = [g EXCEPT !.pc = "send",
                      !.csv_files = {item \in listdir(g.uid) : item[2] = ".csv"}]
    /\ UNCHANGED <<now, uploads, dirs, status, csv, threads, faults, h, hresp, returned, resp>>

basename(name) == name[1] \o name[2]

\* get_csv_send, with an empty list of CSV files answered as an error
\* instead of being zipped.
get_csv_send_EmptyIsNotFound ==
    LET found == [name \in g.csv_files |-> csv[<<g.uid, name>>]] IN
    /\ g.pc = "send"
    /\ \/ /\ Cardinality(g.csv_files) = 1
          /\ resp' = SendFile(basename(CHOOSE name \in g.csv_files : TRUE),
                              "application/csv", found)
       \/ /\ Cardinality(g.csv_files) > 1
          /\ resp' = SendFile("tables.zip", "application/zip", found)
       \/ /\ Cardinality(g.csv_files) = 0
          /\ resp' = Json(404, <<"No CSV files found">>)
    /\ g' = [g EXCEPT !.pc = "idle"]
    /\ UNCHANGED <<now, uploads, dirs, status, csv, threads, faults, h, hresp, returned>>

\* One file is sent as it is, any other number of files as tables.zip.
get_csv_send ==
    LET found == [name \in g.csv_files |-> csv[<<g.uid, name>>]] IN
    /\ g.pc = "send"
    /\ \/ /\ Cardinality(g.csv_files) = 1
          /\ resp' = SendFile(basename(CHOOSE name \in g.csv_files : TRUE),
                              "application/csv", found)
       \/ /\ Cardinality(g.csv_files) # 1
          /\ resp' = SendFile("tables.zip", "application/zip", found)
    /\ g' = [g EXCEPT !.pc = "idle"]
    /\ UNCHANGED <<now, uploads, dirs, status, csv, threads, faults, h, hresp, returned>>

get_csv == get_csv_request \/ get_csv_status \/ get_csv_listdir \/ get_csv_send

-----------------------------------------------------------------------------
(* The service *)

Init ==
    /\ now = 0
    /\ uploads = Empty
    /\ dirs = {}
    /\ status = Empty
    /\ csv = Empty
    /\ threads = <<>>
    /\ faults = 0
    /\ h = [pc |-> "idle", files |-> <<>>, k |-> 1, response |-> <<>>, filename |-> ""]
    /\ hresp = NoResponse
    /\ returned = {}
    /\ g = [pc |-> "idle", uid |-> UUID(0), csv_files |-> {}]
    /\ resp = NoReply

extract_tables ==
    \/ \E j \in 1..Len(threads) : extract_tables_makedirs(j)
    \/ \E j \in 1..Len(threads) : extract_tables_open_status(j)
    \/ \E j \in 1..Len(threads) : extract_tables_write_status(j)
    \/ \E j \in 1..Len(threads) : extract_tables_open_pdf(j)
    \/ \E j \in 1..Len(threads) : extract_tables_open_csv(j)

Next == home \/ extract_tables \/ get_csv

Spec == Init /\ [][Next]_vars

\* The steps of the j-th thread.
extract_tables_thread(j) ==
    /\ j \in 1..Len(threads)
    /\ \/ extract_tables_makedirs(j)
       \/ extract_tables_open_status(j)
       \/ extract_tables_write_status(j)
       \/ extract_tables_open_pdf(j)
       \/ extract_tables_open_csv(j)

\* Thread(...).start() hands each extract_tables to the scheduler of the
\* interpreter, which lets every thread that can run take its next step; the
\* requests of the clients come or do not come.
Fairness == \A j \in 1..MaxJobs : WF_vars(extract_tables_thread(j))

LiveSpec == Spec /\ Fairness

-----------------------------------------------------------------------------
(* Vocabulary of the properties *)

\* The extractions that were given the directory of `uid`.
Targets(uid) == {j \in 1..Len(threads) : threads[j].target = uid}

Last(s) == s[Len(s)]

\* th has written a terminal status.
Recorded(th) == \E k \in 1..Len(th.log) : th.log[k] \in Terminal

\* get_csv sends its response in this step.
Responds == resp = NoReply /\ resp' # NoReply

\* The CSV files in the directory of `uid`, and what they hold.
CsvFiles(uid) == {item \in listdir(uid) : item[2] = ".csv"}
Held(uid) == [name \in CsvFiles(uid) |-> csv[<<uid, name>>]]

RECURSIVE TotalTables(_)
TotalTables(pages) ==
    IF pages = <<>> THEN 0 ELSE Len(Head(pages).tables) + TotalTables(Tail(pages))

\* No page raises, no page is without a table (the case of C14) and every
\* table passes check_rows.
AllValid(pages) ==
    \A i \in 1..Len(pages) :
        /\ pages[i].raises = NoError
        /\ Len(pages[i].tables) > 0
        /\ \A t \in 1..Len(pages[i].tables) : check_rows(pages[i].tables[t])

\* The artifacts of a document: one per table, named by page and by index
\* within the page, each holding the rows of its table.
Artifacts(pages) ==
    LET places == UNION {{<<i, t>> : t \in 1..Len(pages[i].tables)} : i \in 1..Len(pages)} IN
    [name \in {CsvName(pl[1], pl[2]) : pl \in places} |->
        LET pl == CHOOSE q \in places : CsvName(q[1], q[2]) = name IN
        pages[pl[1]].tables[pl[2]]]

\* The code and the message of a status line "<code>,<message>".
RecordedCode(line) == int(SubSeq(line, 1, find(line, COMMA, 1) - 1))
RecordedMessage(line) == SubSeq(line, find(line, COMMA, 1) + 1, Len(line))

\* The sites whose line is a failure.
FailureSites == {"structure", "csverr", "syntax", "general", "toplevel"}

\* A content that get_csv is to take for a status: the success token, or a
\* line "<integer code>,<message>".
WellFormed(content) ==
    LET lines == readlines(content)
        first_line == strip(lines[1])
        msg == split(first_line, COMMA) IN
    /\ lines # <<>>
    /\ \/ first_line = <<"success">>
       \/ Len(msg) >= 2 /\ IsIntLiteral(msg[1])

\* The case of the no-tables status: a page without a table, every page
\* before it holding structurally valid tables only.
NoTablesCase(pages) ==
    \E p \in 1..Len(pages) :
        /\ pages[p].raises = NoError
        /\ Len(pages[p].tables) = 0
        /\ AllValid(SubSeq(pages, 1, p - 1))

\* The j-th extraction has recorded a terminal status and has returned.
Finished(j) ==
    /\ j \in 1..Len(threads)
    /\ threads[j].pc = "done"
    /\ Recorded(threads[j])

\* th has not yet handed its source to pdfplumber.open and is still to do so.
NotYetRead(th) ==
    \/ th.pc \in {"makedirs", "open_pdf"}
    \/ th.pc \in {"open_status", "write_status"} /\ th.site = "pending"

InProgress == Json(200, <<SP, "Extracting data in progress">>)

-----------------------------------------------------------------------------
(* Properties *)

\* C1: whenever the status record of a job reads `success`, every CSV file
\* in the directory of the job is completely written and none is created or
\* changed from then on; and the files get_csv has served for a job are all
\* the files the directory of the job holds.
C1_SuccessAfterArtifacts ==
    /\ [](\A uid \in DOMAIN status :
            status[uid] = <<"success">> =>
                \A name \in CsvFiles(uid) : csv[<<uid, name>>] # EmptyFile)
    /\ [][\A uid \in DOMAIN status :
            status[uid] = <<"success">> => Held(uid)' = Held(uid)]_vars
    /\ []((g.pc = "idle" /\ resp.kind = "file") => resp.entries = Held(g.uid))

\* C2: a get_csv for an identifier that home has returned, made while no
\* extraction for it has recorded a terminal status, answers 200 with the
\* in-progress message.
C2_PendingUntilTerminal ==
    [][(/\ Responds
        /\ g.uid \in returned
        /\ \A j \in Targets(g.uid) : ~Recorded(threads[j]))
            => resp' = InProgress]_vars

C4_DistinctIds ==
    \A a, b \in 1..Len(h.response) :
        a # b => h.response[a].uid # h.response[b].uid

\* C5: a request rejected because a file is no PDF has issued no job
\* identifier (so has saved no file and started no thread).
C5_RejectsWholeBatch ==
    hresp.error = "All files should be PDFs" => h.response = <<>>

\* C6: an extraction of a document with exactly one table, structurally
\* valid, ends in `success` with that table as the one CSV file of the job,
\* and get_csv then sends that file.
C6_SingleTableCsv ==
    /\ [](\A j \in 1..Len(threads) :
            LET th == threads[j] IN
            (/\ th.pc = "done"
             /\ faults = 0
             /\ AllValid(th.pages)
             /\ TotalTables(th.pages) = 1)
                => Last(th.log) = "success" /\ Held(th.target) = Artifacts(th.pages))
    /\ [][(/\ Responds
           /\ faults = 0
           /\ \E j \in Targets(g.uid) :
                /\ threads[j].pc = "done"
                /\ AllValid(threads[j].pages)
                /\ TotalTables(threads[j].pages) = 1)
            => /\ resp'.kind = "file"
               /\ resp'.mimetype = "application/csv"
               /\ \E j \in Targets(g.uid) : resp'.entries = Artifacts(threads[j].pages)]_vars

\* C7: an extraction of a document with N > 1 tables, all structurally
\* valid, ends in `success` with N CSV files named by page and index, and
\* get_csv then sends tables.zip holding exactly these files.
C7_ZipOfAllTables ==
    /\ [](\A j \in 1..Len(threads) :
            LET th == threads[j] IN
            (/\ th.pc = "done"
             /\ faults = 0
             /\ AllValid(th.pages)
             /\ TotalTables(th.pages) > 1)
                => /\ Last(th.log) = "success"
                   /\ CsvFiles(th.target) = DOMAIN Artifacts(th.pages))
    /\ [][(/\ Responds
           /\ faults = 0
           /\ \E j \in Targets(g.uid) :
                /\ threads[j].pc = "done"
                /\ AllValid(threads[j].pages)
                /\ TotalTables(threads[j].pages) > 1)
            => /\ resp'.kind = "file"
               /\ resp'.download_name = "tables.zip"
               /\ \E j \in Targets(g.uid) :
                    DOMAIN resp'.entries = DOMAIN Artifacts(threads[j].pages)]_vars

\* C8: once an extraction has met a table that fails check_rows and has
\* returned, the status record of its job reads 400 with the message of the
\* structural failure, the directory of the job holds no CSV file, and
\* get_csv answers with that failure.
C8_StructuralFailure ==
    /\ [](\A j \in 1..Len(threads) :
            LET th == threads[j] IN
            (faults = 0 /\ th.pc = "done" /\ th.site = "structure")
                => /\ status[th.target] = Line("structure", th)
                   /\ CsvFiles(th.target) = {})
    /\ [][(/\ Responds
           /\ faults = 0
           /\ \E j \in Targets(g.uid) :
                threads[j].pc = "done" /\ threads[j].site = "structure")
            => resp' = Json(400, <<SP, "Tables are not properly structured">>)]_vars

\* C9: when the status record holds a failure line that an extraction
\* recorded, get_csv answers with the code of the line and with its whole
\* message.
C9_FailureVerbatim ==
    [][(/\ Responds
        /\ g.pc = "status"
        /\ g.uid \in DOMAIN status
        /\ \E j \in Targets(g.uid) :
            /\ threads[j].pc = "done"
            /\ Last(threads[j].log) \in FailureSites
            /\ status[g.uid] = Line(Last(threads[j].log), threads[j]))
            => /\ resp'.kind = "json"
               /\ resp'.code = RecordedCode(status[g.uid])
               /\ resp'.error = RecordedMessage(status[g.uid])]_vars

\* C10: when the status record exists and holds neither the success token
\* nor a line "<integer code>,<message>", get_csv answers 400.
C10_MalformedIs400 ==
    [][(/\ Responds
        /\ g.pc = "status"
        /\ g.uid \in DOMAIN status
        /\ ~WellFormed(status[g.uid]))
            => resp'.kind = "json" /\ resp'.code = 400]_vars

\* C11: a get_csv that reads the status of a uid for which no response.txt
\* exists answers 404 `Status file not found` and leaves every file and
\* directory as it was.
C11_UnknownIs404 ==
    [][(/\ g.pc = "status"
        /\ g' # g
        /\ g.uid \notin DOMAIN status)
            => /\ resp' = Json(404, <<"Status file not found">>)
               /\ UNCHANGED <<uploads, dirs, status, csv>>]_vars

\* C11, witness: get_csv has answered 404 for a uid that home has issued and
\* whose extraction has written nothing yet.
C11_Witness ==
    /\ g.pc = "idle"
    /\ g.uid \in returned
    /\ g.uid \notin DOMAIN status
    /\ resp = Json(404, <<"Status file not found">>)

\* C12: once an extraction has returned with its terminal status in the
\* status record of its job, no step changes that record, so that any two
\* get_csv for the job read the same status; and no step of get_csv changes
\* a status record or a CSV file.
C12_TerminalIsStable ==
    /\ [][\A uid \in DOMAIN status :
            (\E j \in Targets(uid) :
                /\ threads[j].pc = "done"
                /\ Recorded(threads[j])
                /\ status[uid] = Line(Last(threads[j].log), threads[j]))
                    => status'[uid] = status[uid]]_vars
    /\ [][g' # g => UNCHANGED <<status, csv>>]_vars

\* C13: no error leaves extract_tables: no thread ends with an exception,
\* and a thread that has met an error and has returned has recorded a
\* terminal status whose code is 500.
C13_NoEscape ==
    \A j \in 1..Len(threads) :
        LET th == threads[j] IN
        /\ th.pc # "crashed"
        /\ (th.pc = "done" /\ th.e # NoError)
            => /\ Recorded(th)
               /\ RecordedCode(Line(Last(th.log), th)) = 500

\* C14: an extraction of a document whose first page without a table comes
\* after structurally valid tables only (or first of all) returns with the
\* no-tables status as its terminal status, and get_csv then answers 200
\* `No tables found`, with no artifact.
C14_NoTablesAborts ==
    /\ [](\A j \in 1..Len(threads) :
            LET th == threads[j] IN
            (th.pc = "done" /\ faults = 0 /\ NoTablesCase(th.pages))
                => Last(th.log) = "notables")
    /\ [][(/\ Responds
           /\ faults = 0
           /\ \E j \in Targets(g.uid) :
                threads[j].pc = "done" /\ NoTablesCase(threads[j].pages))
            => resp' = Json(200, <<SP, "No tables found">>)]_vars

\* C15: whenever get_csv reads a status record that exists, the record holds
\* a whole line that an extraction of the job has written, never an empty
\* or a partial content.
C15_ReadsWholeLine ==
    [][(/\ g.pc = "status"
        /\ g' # g
        /\ g.uid \in DOMAIN status)
            => \E j \in Targets(g.uid) : \E site \in Sites :
                    status[g.uid] = Line(site, threads[j])]_vars

\* C16: no two extractions are given the same target directory, and a
\* status record or CSV file is written by the one extraction of its job.
C16_OneWriterPerTarget ==
    \A a, b \in 1..Len(threads) :
        a # b => threads[a].target # threads[b].target

\* C17: every extraction that home has started eventually has recorded a
\* terminal status and has returned.
C17_EveryJobEnds ==
    \A j \in 1..MaxJobs :
        [](Len(threads) >= j => <>Finished(j))

\* C18 as claimed: until home has sent its response, no extraction that the
\* request has started has recorded a terminal status.
C18_ReturnsBeforeAnyFinish ==
    h.pc # "idle" => \A j \in Dispatched : ~Recorded(threads[j])

\* C18 as amended: home never waits for an extraction: while it handles a
\* request it can take its next step, up to and including the sending of
\* its response, whatever the extractions it has started are doing.
C18_HomeNeverWaits ==
    h.pc # "idle" => ENABLED home

\* C18, witness: home has sent its 200 response while an extraction it has
\* started is still running and another one has already returned.
C18_Witness ==
    /\ h.pc = "idle"
    /\ hresp.code = 200
    /\ \E j \in Dispatched : Running(threads[j])
    /\ \E j \in Dispatched : Finished(j)

\* C19: a get_csv that reads `success` goes on to list the directory of the
\* job; when the directory holds no CSV file the list is empty, and for an
\* empty list get_csv sends, with code 200, a tables.zip without entries.
C19_EmptySuccessIsEmptyZip ==
    /\ [][(/\ g.pc = "status"
           /\ g' # g
           /\ g.uid \in DOMAIN status
           /\ status[g.uid] = <<"success">>)
            => g'.pc = "listdir" /\ resp' = NoReply]_vars
    /\ [][(/\ g.pc = "listdir"
           /\ g' # g
           /\ CsvFiles(g.uid) = {})
            => g'.pc = "send" /\ g'.csv_files = {} /\ resp' = NoReply]_vars
    /\ [][(/\ g.pc = "send"
           /\ g' # g
           /\ g.csv_files = {})
            => resp' = SendFile("tables.zip", "application/zip", Empty)]_vars

\* C19, witness: get_csv has sent a tables.zip without entries for a job
\* whose extraction of a document without pages has recorded `success`.
C19_Witness ==
    /\ g.pc = "idle"
    /\ resp = SendFile("tables.zip", "application/zip", Empty)
    /\ CsvFiles(g.uid) = {}
    /\ \E j \in Targets(g.uid) :
        /\ Finished(j)
        /\ threads[j].pages = <<>>
        /\ Last(threads[j].log) = "success"

\* C20: the stored source of an extraction that has not yet opened it is
\* the document uploaded for its job: no step replaces it by another one.
C20_SourceKept ==
    [][\A j \in 1..Len(threads) :
        NotYetRead(threads[j])
            => uploads'[threads[j].source] = uploads[threads[j].source]]_vars

=============================================================================
